---- MODULE Spec2Model ----
(***************************************************************************)
(* Viewer side of images-gl: the ChunkManager (src/src/view/utils.ts) and  *)
(* the spatial load scheduler of the image viewer component                *)
(* (src/unnamed/part_003: loadAllChunks, createSpatialBatches).            *)
(***************************************************************************)
EXTENDS Integers, Sequences, FiniteSets, Bags, TLC

(***************************************************************************)
(* Bounds of the model.                                                    *)
(***************************************************************************)
\* largest grid side handed to createSpatialBatches in SpecBatch
MaxGrid == 8
\* requestChunk calls that enqueue an id in one run
MaxRequests == 5
\* initializeChunksFromMetadata calls in one run of SpecSwitch
MaxInits == 2
\* requestChunk calls that enqueue an id in one run of SpecSwitch
MaxSwitchRequests == 3
\* longest reply of get_image_chunk, in bytes, in SpecFrame
MaxLen == 16
\* requestChunk calls that enqueue an id in one run of SpecFrame
MaxFrameRequests == 2
\* requestChunk calls that enqueue an id in one run of SpecDrain
MaxDrainRequests == 4
\* requestChunk calls that enqueue an id in one run of SpecHalt
MaxHaltRequests == 4

(***************************************************************************)
(* Spatial scheduler (pure functions).                                     *)
(***************************************************************************)
\* chunk id as built by the template string `${x}_${y}`
ChunkId(x, y) == ToString(x) \o "_" \o ToString(y)

\* mutant of StepTwo: the loop advances by 1 (v++ instead of v += 2)
RECURSIVE StepTwo_byOne(_, _)
StepTwo_byOne(from, limit) ==
    IF from < limit THEN <<from>> \o StepTwo_byOne(from + 1, limit) ELSE <<>>

\* the values taken by  for (let v = from; v < limit; v += 2)
RECURSIVE StepTwo(_, _)
StepTwo(from, limit) ==
    IF from < limit THEN <<from>> \o StepTwo(from + 2, limit) ELSE <<>>

\* inner loop over x for one row y: pushes `${x}_${y}` for every x of xs
BatchRow(xs, y) == [i \in 1..Len(xs) |-> ChunkId(xs[i], y)]

\* outer loop over y, inner loop over x
RECURSIVE BatchLoop(_, _)
BatchLoop(xs, ys) ==
    IF ys = <<>> THEN <<>>
    ELSE BatchRow(xs, Head(ys)) \o BatchLoop(xs, Tail(ys))

\* mutant of PushIfNonEmpty: the batch is pushed also when it is empty
PushIfNonEmpty_always(batches, batch) == Append(batches, batch)

\* if (batch.length > 0) batches.push(batch)
PushIfNonEmpty(batches, batch) ==
    IF Len(batch) > 0 THEN Append(batches, batch) ELSE batches

\* mutant of createSpatialBatches: the third loop starts x at 0 like the second
createSpatialBatches_dupEven(gridWidth, gridHeight) ==
    LET batch1 == BatchLoop(StepTwo(1, gridWidth), StepTwo(1, gridHeight))
        batch2 == BatchLoop(StepTwo(0, gridWidth), StepTwo(0, gridHeight))
        batch3 == BatchLoop(StepTwo(0, gridWidth), StepTwo(0, gridHeight))
        batch4 == BatchLoop(StepTwo(0, gridWidth), StepTwo(1, gridHeight))
    IN  PushIfNonEmpty(PushIfNonEmpty(PushIfNonEmpty(PushIfNonEmpty(
            <<>>, batch1), batch2), batch3), batch4)

\* mutant of createSpatialBatches: the third and fourth loops are exchanged
createSpatialBatches_swapped(gridWidth, gridHeight) ==
    LET batch1 == BatchLoop(StepTwo(1, gridWidth), StepTwo(1, gridHeight))
        batch2 == BatchLoop(StepTwo(0, gridWidth), StepTwo(0, gridHeight))
        batch3 == BatchLoop(StepTwo(0, gridWidth), StepTwo(1, gridHeight))
        batch4 == BatchLoop(StepTwo(1, gridWidth), StepTwo(0, gridHeight))
    IN  PushIfNonEmpty(PushIfNonEmpty(PushIfNonEmpty(PushIfNonEmpty(
            <<>>, batch1), batch2), batch3), batch4)

createSpatialBatches(gridWidth, gridHeight) ==
    LET batch1 == BatchLoop(StepTwo(1, gridWidth), StepTwo(1, gridHeight))
        batch2 == BatchLoop(StepTwo(0, gridWidth), StepTwo(0, gridHeight))
        batch3 == BatchLoop(StepTwo(1, gridWidth), StepTwo(0, gridHeight))
        batch4 == BatchLoop(StepTwo(0, gridWidth), StepTwo(1, gridHeight))
    IN  PushIfNonEmpty(PushIfNonEmpty(PushIfNonEmpty(PushIfNonEmpty(
            <<>>, batch1), batch2), batch3), batch4)

\* the ids x_y of the grid 0 <= x < gx, 0 <= y < gy
GridIds(gx, gy) == {ChunkId(x, y) : x \in 0..(gx - 1), y \in 0..(gy - 1)}

(***************************************************************************)
(* Data model of the viewer (src/src/view/utils.ts).                       *)
(***************************************************************************)
\* enum ChunkStatus
UNREQUESTED == "unrequested"
REQUESTING  == "requesting"
IN_CPU      == "in_cpu"
IN_GPU      == "in_gpu"
ERROR       == "error"
ChunkStatus == {UNREQUESTED, REQUESTING, IN_CPU, IN_GPU, ERROR}

\* private maxConcurrentRequests = 3
maxConcurrentRequests == 3

\* the value `undefined` of the optional fields
NoTexture  == <<>>
NoData     == -1
NoPath     == "undefined"
NoMetadata == [total_width |-> 0, total_height |-> 0, chunk_size |-> 0,
               chunks_x |-> 0, chunks_y |-> 0, chunks |-> <<>>]

\* Math.ceil(a / b) for positive integers
CeilDiv(a, b) == (a + b - 1) \div b

Min(a, b) == IF a < b THEN a ELSE b

\* interface ChunkInfo, filled in as the preprocessor does (dimension
\* formulas of the data model: edge tiles are smaller)
MakeChunkInfo(tw, th, cs, cx, cy) ==
    [x |-> cx * cs, y |-> cy * cs,
     width |-> Min(cs, tw - cx * cs), height |-> Min(cs, th - cy * cs),
     chunk_x |-> cx, chunk_y |-> cy]

\* interface ImageMetadata for a tw x th image cut into cs x cs chunks
MakeMetadata(tw, th, cs) ==
    LET nx == CeilDiv(tw, cs)
        ny == CeilDiv(th, cs)
    IN  [total_width |-> tw, total_height |-> th, chunk_size |-> cs,
         chunks_x |-> nx, chunks_y |-> ny,
         chunks |-> [i \in 1..(nx * ny) |->
                       MakeChunkInfo(tw, th, cs, (i - 1) % nx, (i - 1) \div nx)]]

\* new ImageChunk(chunkInfo)
NewImageChunk(chunkInfo) ==
    [id |-> ChunkId(chunkInfo.chunk_x, chunkInfo.chunk_y),
     x |-> chunkInfo.x, y |-> chunkInfo.y,
     width |-> chunkInfo.width, height |-> chunkInfo.height,
     chunk_x |-> chunkInfo.chunk_x, chunk_y |-> chunkInfo.chunk_y,
     status |-> UNREQUESTED, data |-> NoData, texture |-> NoTexture]

\* ImageChunk.updateStatus
updateStatus(chunk, status) == [chunk EXCEPT !.status = status]

\* ImageChunk.setData
setData(chunk, data) == updateStatus([chunk EXCEPT !.data = data], IN_CPU)

\* mutant of setTexture: the status changes but the handle is not stored
setTexture_statusOnly(chunk, texture) ==
    updateStatus(chunk, IN_GPU)

\* ImageChunk.setTexture
setTexture(chunk, texture) ==
    updateStatus([chunk EXCEPT !.texture = texture], IN_GPU)

\* ImageChunk.cleanup (the object's part; gl.deleteTexture is DeleteTextures)
chunkCleanup(chunk) ==
    [chunk EXCEPT !.texture = NoTexture, !.data = NoData,
                  !.status = UNREQUESTED]

(***************************************************************************)
(* State.                                                                  *)
(***************************************************************************)
VARIABLES
    \* ChunkManager fields
    chunks,          \* Map<string, ImageChunk>: id -> reference of the object
    heap,            \* the ImageChunk objects, by reference <<generation, id>>
    metadata,        \* ImageMetadata or NoMetadata
    gl,              \* TRUE when a WebGL context has been set
    onChunkReady,    \* TRUE when a ready callback has been installed
    currentFilePath, \* string or NoPath
    requestQueue,    \* string[]
    activeRequests,  \* number
    \* processQueue invocations suspended at an await (a bag: two invocations
    \* holding the same object at the same await are interchangeable)
    pipes,
    \* the textures of the WebGL context: handle -> "live" or "deleted";
    \* the handle of the n-th texture created for object ref is <<ref, n>>
    textures,
    \* loadAllChunks / createSpatialBatches
    gridWidth,
    gridHeight,
    batches,
    batchIndex,
    loadPc,
    \* observation of the run
    nInits,          \* initializations so far
    cleaned,         \* TRUE once cleanup() has been called
    nRequests,       \* requestChunk calls that enqueued an id
    uploads,         \* object -> number of textures created and stored for it
    readyCalls,      \* object -> number of ready callback invocations for it
    callbackFrom,    \* textures stored before setOnChunkReady (-1: not set)
    \* the backend and the request boundary
    wire,            \* the reply of get_image_chunk on its way to the viewer
    cache,           \* the cache store: path -> the files of its cache entry
    job              \* the run of the preprocessor in progress

mgrVars == <<chunks, heap, metadata, gl, onChunkReady, currentFilePath,
             requestQueue, activeRequests, pipes, textures>>
loadVars == <<gridWidth, gridHeight, batches, batchIndex, loadPc>>
obsVars == <<nInits, cleaned, nRequests, uploads, readyCalls, callbackFrom>>
backendVars == <<wire, cache, job>>
vars == <<mgrVars, loadVars, obsVars, backendVars>>

EmptyMap == [i \in {} |-> 0]

\* state after `new ChunkManager()`
InitManager ==
    /\ chunks = EmptyMap
    /\ heap = EmptyMap
    /\ metadata = NoMetadata
    /\ gl = FALSE
    /\ onChunkReady = FALSE
    /\ currentFilePath = NoPath
    /\ requestQueue = <<>>
    /\ activeRequests = 0
    /\ pipes = EmptyBag
    /\ textures = EmptyMap

InitObs ==
    /\ nInits = 0
    /\ cleaned = FALSE
    /\ nRequests = 0
    /\ uploads = EmptyMap
    /\ readyCalls = EmptyMap
    /\ callbackFrom = -1

(***************************************************************************)
(* The backend: cache store, preprocessor and chunk server, and the bytes  *)
(* that cross the request boundary.                                        *)
(***************************************************************************)
\* nothing on the wire
NoReply == [kind |-> "none", len |-> 0, hdr |-> <<>>, error |-> "", meta |-> NoMetadata]

\* a command failed with the named error
ErrorReply(error) == [NoReply EXCEPT !.kind = "error", !.error = error]

\* a command returned a metadata record
MetaReply(m) == [NoReply EXCEPT !.kind = "metadata", !.meta = m]

\* a command returned len bytes; hdr holds the first 8 of them (fewer when
\* len < 8)
RawBytes(len, hdr) ==
    [NoReply EXCEPT !.kind = "bytes", !.len = len,
                    !.hdr = SubSeq(hdr, 1, Min(len, 8))]

\* the four bytes of n as a big-endian unsigned 32-bit integer
BigEndian32(n) ==
    <<(n \div 16777216) % 256, (n \div 65536) % 256, (n \div 256) % 256,
      n % 256>>

\* the blob of a chunk: [w_be_u32][h_be_u32][w*h*4 bytes of pixels]
FrameBlob(w, h) ==
    RawBytes(8 + w * h * 4, BigEndian32(w) \o BigEndian32(h))

\* a blob file whose write stopped after n bytes
Truncated(blob, n) == RawBytes(Min(n, blob.len), blob.hdr)

\* a cache entry: the metadata record (NoMetadata when the file is absent)
\* and the blob files by chunk id
EmptyEntry == [metadata |-> NoMetadata, blobs |-> [i \in {} |-> 0]]

\* the preprocessor is not running
Idle == [pc |-> "idle", path |-> NoPath, force |-> FALSE, todo |-> {},
         meta |-> NoMetadata]

\* sources on disk and what the pixel codec decodes them to
\* (total width, total height), with the chunk size of the preprocessor
Sources == {"a.png", "b.png"}
ImageOf(path) == IF path = "a.png" THEN <<2, 1>> ELSE <<1, 1>>
ServerChunkSize == 1

InitBackend ==
    /\ wire = NoReply
    /\ cache = [path \in Sources |-> EmptyEntry]
    /\ job = Idle

(***************************************************************************)
(* ChunkManager operations.  The manager runs on one thread: a handler runs *)
(* without interruption up to its next await.                               *)
(***************************************************************************)
\* the fields a run of requestChunk / processQueue reads and writes
MgrState == [heap |-> heap, queue |-> requestQueue, active |-> activeRequests,
             pipes |-> pipes]

\* a processQueue invocation suspended at `await import(...)`
NewPipe(ref) ==
    [chunk |-> ref, phase |-> "import", chunkX |-> -1, chunkY |-> -1,
     filePath |-> NoPath]

\* mutant of processQueue: the guard compares with > instead of >=
processQueue_overCap(s, chunkMap) ==
    IF s.active > maxConcurrentRequests \/ Len(s.queue) = 0 THEN s
    ELSE LET chunkId == Head(s.queue)
             shifted == [s EXCEPT !.queue = Tail(s.queue)]
         IN  IF chunkId \notin DOMAIN chunkMap THEN shifted
             ELSE LET ref == chunkMap[chunkId]
                  IN  [shifted EXCEPT
                          !.active = s.active + 1,
                          !.heap[ref] = updateStatus(@, REQUESTING),
                          !.pipes = @ (+) SetToBag({NewPipe(ref)})]

\* mutant of processQueue: the id is taken from the end of the queue (pop
\* instead of shift)
processQueue_pop(s, chunkMap) ==
    IF s.active >= maxConcurrentRequests \/ Len(s.queue) = 0 THEN s
    ELSE LET chunkId == s.queue[Len(s.queue)]
             popped == [s EXCEPT !.queue = SubSeq(s.queue, 1, Len(s.queue) - 1)]
         IN  IF chunkId \notin DOMAIN chunkMap THEN popped
             ELSE LET ref == chunkMap[chunkId]
                  IN  [popped EXCEPT
                          !.active = s.active + 1,
                          !.heap[ref] = updateStatus(@, REQUESTING),
                          !.pipes = @ (+) SetToBag({NewPipe(ref)})]

\* processQueue up to its first await: guard, shift, activeRequests++,
\* lookup (activeRequests-- and return when the id is unknown), REQUESTING
processQueue(s, chunkMap) ==
    IF s.active >= maxConcurrentRequests \/ Len(s.queue) = 0 THEN s
    ELSE LET chunkId == Head(s.queue)
             shifted == [s EXCEPT !.queue = Tail(s.queue)]
         IN  IF chunkId \notin DOMAIN chunkMap THEN shifted
             ELSE LET ref == chunkMap[chunkId]
                  IN  [shifted EXCEPT
                          !.active = s.active + 1,
                          !.heap[ref] = updateStatus(@, REQUESTING),
                          !.pipes = @ (+) SetToBag({NewPipe(ref)})]

\* mutant of requestSkipped: the IN_GPU test is missing
requestSkipped_noGpu(s, chunkMap, chunkId) ==
    IF chunkId \notin DOMAIN chunkMap THEN TRUE
    ELSE s.heap[chunkMap[chunkId]].status \in {REQUESTING, IN_CPU}

\* TRUE when requestChunk(chunkId) returns early without enqueueing
requestSkipped(s, chunkMap, chunkId) ==
    IF chunkId \notin DOMAIN chunkMap THEN TRUE
    ELSE s.heap[chunkMap[chunkId]].status \in {REQUESTING, IN_CPU, IN_GPU}

\* mutant of requestChunk: the id is pushed but processQueue is not called
requestChunk_noStart(s, chunkMap, chunkId) ==
    IF requestSkipped(s, chunkMap, chunkId) THEN s
    ELSE [s EXCEPT !.queue = Append(@, chunkId)]

\* requestChunk(chunkId), including its call of processQueue
requestChunk(s, chunkMap, chunkId) ==
    IF requestSkipped(s, chunkMap, chunkId) THEN s
    ELSE processQueue([s EXCEPT !.queue = Append(@, chunkId)], chunkMap)

\* the reply of get_image_chunk as processQueue sees it: a rejected promise,
\* a value that is neither ArrayBuffer nor Uint8Array, or bytes of length
\* len whose first 8 bytes (when present) read as big-endian w and h
IpcError  == [kind |-> "ipc_error", len |-> 0, w |-> 0, h |-> 0]
WrongType == [kind |-> "wrong_type", len |-> 0, w |-> 0, h |-> 0]
Bytes(len, w, h) == [kind |-> "bytes", len |-> len, w |-> w, h |-> h]

\* mutant of replyAccepted: the expected size is w * h, not w * h * 4
replyAccepted_noRgba(r) ==
    /\ r.kind = "bytes"
    /\ ~(r.len < 8)
    /\ ~((r.len - 8) # r.w * r.h)

\* the checks of processQueue on the reply (type, length >= 8, pixel size)
replyAccepted(r) ==
    /\ r.kind = "bytes"
    /\ ~(r.len < 8)
    /\ ~((r.len - 8) # r.w * r.h * 4)

\* DataView.getUint32(byteOffset, false): big-endian, unsigned
getUint32(hdr, byteOffset) ==
    hdr[byteOffset + 1] * 16777216 + hdr[byteOffset + 2] * 65536
        + hdr[byteOffset + 3] * 256 + hdr[byteOffset + 4]

\* what processQueue makes of the value invoke resolves or rejects with:
\* a rejection, bytes (with the header read when 8 bytes are there), or
\* a value of another type
ParseReply(raw) ==
    IF raw.kind = "error" THEN IpcError
    ELSE IF raw.kind = "bytes"
         THEN IF raw.len < 8 THEN Bytes(raw.len, 0, 0)
              ELSE Bytes(raw.len, getUint32(raw.hdr, 0), getUint32(raw.hdr, 4))
         ELSE WrongType

\* mutant of settleChunk: the chunk keeps the width and height of the
\* metadata (chunk.width = width; chunk.height = height are missing)
settleChunk_metaDims(chunk, r, hasGl, hasCallback, gpu, texture) ==
    IF ~replyAccepted(r) THEN updateStatus(chunk, ERROR)
    ELSE LET inCpu == setData(chunk, r.len - 8)
         IN  IF ~hasGl THEN inCpu
             ELSE IF gpu = "no_texture" THEN updateStatus(inCpu, ERROR)
             ELSE IF hasCallback /\ gpu = "callback_throws"
                  THEN updateStatus(setTexture(inCpu, texture), ERROR)
                  ELSE setTexture(inCpu, texture)

\* the object after the try/catch of processQueue and uploadChunkToGPU.
\* gpu is what the WebGL side and the callback do: "ok", "no_texture"
\* (createTexture returns null) or "callback_throws".
\* texture is the handle createTexture returns.
settleChunk(chunk, r, hasGl, hasCallback, gpu, texture) ==
    IF ~replyAccepted(r) THEN updateStatus(chunk, ERROR)
    ELSE LET inCpu == setData([chunk EXCEPT !.width = r.w, !.height = r.h],
                              r.len - 8)
         IN  IF ~hasGl THEN inCpu
             ELSE IF gpu = "no_texture" THEN updateStatus(inCpu, ERROR)
             ELSE IF hasCallback /\ gpu = "callback_throws"
                  THEN updateStatus(setTexture(inCpu, texture), ERROR)
                  ELSE setTexture(inCpu, texture)

\* TRUE when uploadChunkToGPU reaches chunk.setTexture(texture)
textureStored(r, hasGl, gpu) ==
    replyAccepted(r) /\ hasGl /\ gpu # "no_texture"

\* number of textures created so far for object ref
Count(f, k) == IF k \in DOMAIN f THEN f[k] ELSE 0

Bump(f, k) == IF k \in DOMAIN f THEN [f EXCEPT ![k] = @ + 1]
              ELSE [j \in DOMAIN f \cup {k} |-> IF j = k THEN 1 ELSE f[j]]

(***************************************************************************)
(* Inputs of the operations.                                               *)
(***************************************************************************)
\* sources the user can select
Paths == {"a.png"}

\* metadata records the backend can return: a 2x2 and a 1x1 grid of 1x1 chunks
Metas == {MakeMetadata(2, 2, 1), MakeMetadata(1, 1, 1)}

\* ids passed to requestChunk: the ids of the 2x2 grid and an unknown id
RequestIds == GridIds(2, 2) \cup {"7_7"}

\* replies of get_image_chunk: a rejected invoke, a value of the wrong type,
\* a blob shorter than its header, a blob whose 4 pixel bytes do not match
\* its header (2, 1), and the well-framed blob of a 1x1 chunk
Replies ==
    {IpcError, WrongType, Bytes(4, 0, 0), Bytes(12, 2, 1), Bytes(12, 1, 1)}

GpuOutcomes == {"ok", "no_texture", "callback_throws"}

(***************************************************************************)
(* Actions of the chunk manager.                                           *)
(***************************************************************************)
\* setWebGLContext(gl)
SetWebGLContext ==
    /\ ~gl
    /\ gl' = TRUE
    /\ UNCHANGED <<backendVars, chunks, heap, metadata, onChunkReady, currentFilePath,
                   requestQueue, activeRequests, pipes, textures, loadVars,
                   nInits, cleaned, nRequests, uploads, readyCalls,
                   callbackFrom>>

\* setOnChunkReady(callback): the client installs its callback before it
\* requests chunks
SetOnChunkReady ==
    /\ ~onChunkReady
    /\ nRequests = 0
    /\ onChunkReady' = TRUE
    /\ callbackFrom' = Cardinality(DOMAIN textures)
    /\ UNCHANGED <<backendVars, chunks, heap, metadata, gl, currentFilePath,
                   requestQueue, activeRequests, pipes, textures, loadVars,
                   nInits, cleaned, nRequests, uploads, readyCalls>>

\* the chunk map and heap after  metadata.chunks.forEach(chunkInfo =>
\*   chunks.set(new ImageChunk(chunkInfo).id, ...)) : generation gen objects
InstallChunks(m, gen) ==
    LET infoOf(id) == m.chunks[CHOOSE i \in 1..Len(m.chunks) :
                          ChunkId(m.chunks[i].chunk_x, m.chunks[i].chunk_y) = id
                          /\ \A j \in (i + 1)..Len(m.chunks) :
                               ChunkId(m.chunks[j].chunk_x, m.chunks[j].chunk_y) # id]
        newIds == {ChunkId(m.chunks[i].chunk_x, m.chunks[i].chunk_y) :
                     i \in 1..Len(m.chunks)}
        newRefs == {<<gen, id>> : id \in newIds}
    IN  [chunks |-> [id \in DOMAIN chunks \cup newIds |->
                       IF id \in newIds THEN <<gen, id>> ELSE chunks[id]],
         heap |-> [ref \in DOMAIN heap \cup newRefs |->
                       IF ref \in newRefs THEN NewImageChunk(infoOf(ref[2]))
                       ELSE heap[ref]]]

\* initializeChunksFromMetadata(filePath, metadata)
InitializeChunksFromMetadata(filePath, m) ==
    /\ currentFilePath' = filePath
    /\ metadata' = m
    /\ LET installed == InstallChunks(m, nInits + 1)
       IN  /\ chunks' = installed.chunks
           /\ heap' = installed.heap
    /\ nInits' = nInits + 1
    /\ UNCHANGED <<backendVars, gl, onChunkReady, requestQueue, activeRequests, pipes,
                   textures, loadVars, cleaned, nRequests, uploads,
                   readyCalls,
                   callbackFrom>>

\* requestChunk(chunkId) called by any client of the manager
RequestChunk(chunkId) ==
    LET after == requestChunk(MgrState, chunks, chunkId)
        skipped == requestSkipped(MgrState, chunks, chunkId)
    IN  /\ IF skipped THEN TRUE ELSE nRequests < MaxRequests
        /\ heap' = after.heap
        /\ requestQueue' = after.queue
        /\ activeRequests' = after.active
        /\ pipes' = after.pipes
        /\ nRequests' = IF skipped THEN nRequests ELSE nRequests + 1
        /\ UNCHANGED <<backendVars, chunks, metadata, gl, onChunkReady, currentFilePath,
                       textures, loadVars, nInits, cleaned, uploads,
                       readyCalls,
                   callbackFrom>>

\* processQueue resumes after `await import(...)` and calls
\* invoke("get_image_chunk", {chunkX, chunkY, filePath: this.currentFilePath})
InvokeGetImageChunk(p) ==
    /\ BagIn(p, pipes)
    /\ p.phase = "import"
    /\ pipes' = (pipes (-) SetToBag({p})) (+) SetToBag({
                    [p EXCEPT !.phase = "invoked",
                              !.chunkX = heap[p.chunk].chunk_x,
                              !.chunkY = heap[p.chunk].chunk_y,
                              !.filePath = currentFilePath]})
    /\ UNCHANGED <<backendVars, chunks, heap, metadata, gl, onChunkReady, currentFilePath,
                   requestQueue, activeRequests, textures, loadVars,
                   nInits, cleaned, nRequests, uploads, readyCalls,
                   callbackFrom>>

\* mutant of Reply: the finally block releases the slot but does not call
\* processQueue()
Reply_noContinue(p, r, gpu) ==
    /\ BagIn(p, pipes)
    /\ p.phase = "invoked"
    /\ LET ref == p.chunk
           texture == <<ref, Count(uploads, ref) + 1>>
           stored == textureStored(r, gl, gpu)
       IN  /\ heap' = [heap EXCEPT ![ref] = settleChunk(@, r, gl, onChunkReady,
                                                        gpu, texture)]
           /\ requestQueue' = requestQueue
           /\ activeRequests' = activeRequests - 1
           /\ pipes' = pipes (-) SetToBag({p})
           /\ textures' = IF stored
                          THEN [t \in DOMAIN textures \cup {texture} |->
                                  IF t = texture THEN "live" ELSE textures[t]]
                          ELSE textures
           /\ uploads' = IF stored THEN Bump(uploads, ref) ELSE uploads
           /\ readyCalls' = IF stored /\ onChunkReady
                            THEN Bump(readyCalls, ref) ELSE readyCalls
    /\ UNCHANGED <<backendVars, chunks, metadata, gl, onChunkReady, currentFilePath,
                   loadVars, nInits, cleaned, nRequests,
                   callbackFrom>>

\* processQueue resumes with the reply r of get_image_chunk: parse, setData,
\* uploadChunkToGPU, ready callback, catch, finally (activeRequests--,
\* processQueue())
Reply(p, r, gpu) ==
    /\ BagIn(p, pipes)
    /\ p.phase = "invoked"
    /\ LET ref == p.chunk
           texture == <<ref, Count(uploads, ref) + 1>>
           stored == textureStored(r, gl, gpu)
           settled == [MgrState EXCEPT
                          !.heap[ref] = settleChunk(@, r, gl, onChunkReady,
                                                    gpu, texture),
                          !.active = activeRequests - 1,
                          !.pipes = pipes (-) SetToBag({p})]
           after == processQueue(settled, chunks)
       IN  /\ heap' = after.heap
           /\ requestQueue' = after.queue
           /\ activeRequests' = after.active
           /\ pipes' = after.pipes
           /\ textures' = IF stored
                          THEN [t \in DOMAIN textures \cup {texture} |->
                                  IF t = texture THEN "live" ELSE textures[t]]
                          ELSE textures
           /\ uploads' = IF stored THEN Bump(uploads, ref) ELSE uploads
           /\ readyCalls' = IF stored /\ onChunkReady
                            THEN Bump(readyCalls, ref) ELSE readyCalls
    /\ UNCHANGED <<backendVars, chunks, metadata, gl, onChunkReady, currentFilePath,
                   loadVars, nInits, cleaned, nRequests,
                   callbackFrom>>

\* mutant of chunkCleanup: the texture is deleted only for a chunk in IN_GPU
chunkDeletesTexture_inGpuOnly(chunk) ==
    chunk.texture # NoTexture /\ chunk.status = IN_GPU

\* TRUE when ImageChunk.cleanup(gl) calls gl.deleteTexture
chunkDeletesTexture(chunk) == chunk.texture # NoTexture

\* gl.deleteTexture for the textures held by the objects refs
DeleteTextures(refs) ==
    [t \in DOMAIN textures |->
        IF \E ref \in refs : chunkDeletesTexture(heap[ref])
                                 /\ heap[ref].texture = t
        THEN "deleted"
        ELSE textures[t]]

\* cleanup().  After this.chunks.clear() the chunk objects that no suspended
\* processQueue invocation holds are unreachable; they leave the heap.
Cleanup ==
    /\ LET held == {chunks[id] : id \in DOMAIN chunks}
           kept == {p.chunk : p \in BagToSet(pipes)}
       IN  /\ heap' = [ref \in kept |->
                         IF gl /\ ref \in held THEN chunkCleanup(heap[ref])
                         ELSE heap[ref]]
           /\ textures' = IF gl THEN DeleteTextures(held) ELSE textures
    /\ chunks' = EmptyMap
    /\ requestQueue' = <<>>
    /\ activeRequests' = 0
    /\ cleaned' = TRUE
    /\ UNCHANGED <<backendVars, metadata, gl, onChunkReady, currentFilePath, pipes,
                   loadVars, nInits, nRequests, uploads, readyCalls,
                   callbackFrom>>

\* mutant of statsIncrement: chunks in ERROR are not counted
statsIncrement_noError(stats, chunk) ==
    IF chunk.status = ERROR THEN stats
    ELSE [stats EXCEPT ![chunk.status] = @ + 1]

\* getStatusStats: stats[chunk.status]++
statsIncrement(stats, chunk) == [stats EXCEPT ![chunk.status] = @ + 1]

\* getStatusStats: this.chunks.forEach over the entries ids of the map
RECURSIVE statsForEach(_, _)
statsForEach(stats, ids) ==
    IF ids = {} THEN stats
    ELSE LET id == CHOOSE i \in ids : TRUE
         IN  statsForEach(statsIncrement(stats, heap[chunks[id]]), ids \ {id})

\* getStatusStats()
getStatusStats == statsForEach([st \in ChunkStatus |-> 0], DOMAIN chunks)

\* getLoadedChunks(): the chunks of the map that pass the filter
getLoadedChunks ==
    {chunks[id] : id \in {i \in DOMAIN chunks :
                             heap[chunks[i]].status = IN_GPU}}

\* Spec follows one session of a manager: it is initialized once, requests
\* and replies follow, and cleanup() ends the session
StartSession(filePath, m) ==
    /\ nInits = 0
    /\ InitializeChunksFromMetadata(filePath, m)

\* state after construction of the viewer component: a new ChunkManager,
\* loadAllChunks not running
Init ==
    /\ InitManager
    /\ InitObs
    /\ InitBackend
    /\ gridWidth = 0
    /\ gridHeight = 0
    /\ batches = <<>>
    /\ batchIndex = 0
    /\ loadPc = "idle"

Next ==
    \/ SetWebGLContext
    \/ SetOnChunkReady
    \/ \E filePath \in Paths, m \in Metas : StartSession(filePath, m)
    \/ \E chunkId \in RequestIds : RequestChunk(chunkId)
    \/ \E p \in BagToSet(pipes) : InvokeGetImageChunk(p)
    \/ \E p \in BagToSet(pipes), r \in Replies :
          \E gpu \in (IF replyAccepted(r) THEN GpuOutcomes ELSE {"ok"}) :
              Reply(p, r, gpu)
    \/ Cleanup

Spec == Init /\ [][Next]_vars

(***************************************************************************)
(* SpecLoad: the viewer selects an image and runs loadAllChunks; the only   *)
(* requestChunk calls are those of loadAllChunks.                           *)
(***************************************************************************)
\* metadata records of the images loaded in SpecLoad: grids 2x2 (four
\* batches of one chunk), 3x1 (a batch of two chunks) and 1x1
LoadMetas == {MakeMetadata(2, 2, 1), MakeMetadata(3, 1, 1), MakeMetadata(1, 1, 1)}

\* processSelectedImage up to its call of loadAllChunks: WebGL and callback
\* set on first use, process_user_image returns m, initializeChunksFromMetadata
ProcessSelectedImage(filePath, m) ==
    /\ loadPc = "idle"
    /\ gl' = TRUE
    /\ onChunkReady' = TRUE
    /\ callbackFrom' = IF onChunkReady THEN callbackFrom
                       ELSE Cardinality(DOMAIN textures)
    /\ currentFilePath' = filePath
    /\ metadata' = m
    /\ LET installed == InstallChunks(m, nInits + 1)
       IN  /\ chunks' = installed.chunks
           /\ heap' = installed.heap
    /\ nInits' = nInits + 1
    /\ loadPc' = "load"
    /\ UNCHANGED <<backendVars, requestQueue, activeRequests, pipes, textures, gridWidth,
                   gridHeight, batches, batchIndex, cleaned, nRequests,
                   uploads, readyCalls>>

\* loadAllChunks up to its loop: grid from the metadata, createSpatialBatches
LoadAllChunksStart ==
    /\ loadPc = "load"
    /\ metadata # NoMetadata
    /\ gridWidth' = CeilDiv(metadata.total_width, metadata.chunk_size)
    /\ gridHeight' = CeilDiv(metadata.total_height, metadata.chunk_size)
    /\ batches' = createSpatialBatches(
                      CeilDiv(metadata.total_width, metadata.chunk_size),
                      CeilDiv(metadata.total_height, metadata.chunk_size))
    /\ batchIndex' = 0
    /\ loadPc' = "batches"
    /\ UNCHANGED <<backendVars, mgrVars, obsVars>>

\* mutant of requestAll: the batch is requested from its last id to its
\* first
RECURSIVE requestAll_reversed(_, _, _)
requestAll_reversed(s, chunkMap, ids) ==
    IF ids = <<>> THEN s
    ELSE requestAll_reversed(requestChunk(s, chunkMap, ids[Len(ids)]), chunkMap,
                             SubSeq(ids, 1, Len(ids) - 1))

\* batch.map(chunkId => chunkManager.requestChunk(chunkId)): the calls run
\* one after the other without interruption
RECURSIVE requestAll(_, _, _)
requestAll(s, chunkMap, ids) ==
    IF ids = <<>> THEN s
    ELSE requestAll(requestChunk(s, chunkMap, Head(ids)), chunkMap, Tail(ids))

\* one iteration of the loop of loadAllChunks: request the batch, then
\* `await Promise.all(promises)`; every promise is the one returned by
\* requestChunk, which is resolved when requestChunk has returned
LoadBatch ==
    /\ loadPc = "batches"
    /\ batchIndex < Len(batches)
    /\ LET after == requestAll(MgrState, chunks, batches[batchIndex + 1])
       IN  /\ heap' = after.heap
           /\ requestQueue' = after.queue
           /\ activeRequests' = after.active
           /\ pipes' = after.pipes
    /\ batchIndex' = batchIndex + 1
    /\ UNCHANGED <<backendVars, chunks, metadata, gl, onChunkReady, currentFilePath,
                   textures, gridWidth, gridHeight, batches, loadPc, obsVars>>

\* the loop of loadAllChunks ends; startRendering()
LoadAllChunksEnd ==
    /\ loadPc = "batches"
    /\ batchIndex = Len(batches)
    /\ loadPc' = "done"
    /\ UNCHANGED <<backendVars, mgrVars, obsVars, gridWidth, gridHeight, batches,
                   batchIndex>>

NextLoad ==
    \/ \E filePath \in Paths, m \in LoadMetas : ProcessSelectedImage(filePath, m)
    \/ LoadAllChunksStart
    \/ LoadBatch
    \/ LoadAllChunksEnd
    \/ \E p \in BagToSet(pipes) : InvokeGetImageChunk(p)
    \/ \E p \in BagToSet(pipes), r \in Replies :
          \E gpu \in (IF replyAccepted(r) THEN GpuOutcomes ELSE {"ok"}) :
              Reply(p, r, gpu)

SpecLoad == Init /\ [][NextLoad]_vars

(***************************************************************************)
(* SpecBatch: createSpatialBatches applied to every grid up to MaxGrid.    *)
(***************************************************************************)
InitBatch ==
    /\ InitManager
    /\ InitObs
    /\ InitBackend
    /\ gridWidth \in 1..MaxGrid
    /\ gridHeight \in 1..MaxGrid
    /\ batches = <<>>
    /\ batchIndex = 0
    /\ loadPc = "grid"

CreateBatches ==
    /\ loadPc = "grid"
    /\ batches' = createSpatialBatches(gridWidth, gridHeight)
    /\ loadPc' = "batched"
    /\ UNCHANGED <<backendVars, mgrVars, obsVars, gridWidth, gridHeight, batchIndex>>

NextBatch == CreateBatches

SpecBatch == InitBatch /\ [][NextBatch]_vars

(***************************************************************************)
(* SpecSwitch: a manager that is initialized again while it is in use      *)
(* (the user selects another image, or forces preprocessing).              *)
(***************************************************************************)
\* the images the user switches between: a 2x1 grid and a 1x1 grid
SwitchMetas == {MakeMetadata(2, 1, 1), MakeMetadata(1, 1, 1)}

SwitchIds == GridIds(2, 1)

\* replies in SpecSwitch: a rejected invoke and the well-framed 1x1 blob
SwitchReplies == {IpcError, Bytes(12, 1, 1)}

\* processSelectedImage (or forcePreprocess) up to its call of
\* loadAllChunks, whatever the manager is doing: WebGL and callback set on
\* first use, initializeChunksFromMetadata with the metadata returned
SwitchSource(filePath, m) ==
    /\ nInits < MaxInits
    /\ gl' = TRUE
    /\ onChunkReady' = TRUE
    /\ callbackFrom' = IF onChunkReady THEN callbackFrom
                       ELSE Cardinality(DOMAIN textures)
    /\ currentFilePath' = filePath
    /\ metadata' = m
    /\ LET installed == InstallChunks(m, nInits + 1)
       IN  /\ chunks' = installed.chunks
           /\ heap' = installed.heap
    /\ nInits' = nInits + 1
    /\ UNCHANGED <<backendVars, requestQueue, activeRequests, pipes, textures,
                   loadVars, cleaned, nRequests, uploads, readyCalls>>

\* requestChunk(chunkId) called by the viewer
SwitchRequest(chunkId) ==
    /\ nRequests < MaxSwitchRequests
    /\ RequestChunk(chunkId)

NextSwitch ==
    \/ \E filePath \in Paths, m \in SwitchMetas : SwitchSource(filePath, m)
    \/ \E chunkId \in SwitchIds : SwitchRequest(chunkId)
    \/ \E p \in BagToSet(pipes) : InvokeGetImageChunk(p)
    \/ \E p \in BagToSet(pipes), r \in SwitchReplies :
          \E gpu \in (IF replyAccepted(r) THEN GpuOutcomes ELSE {"ok"}) :
              Reply(p, r, gpu)
    \/ Cleanup

SpecSwitch == Init /\ [][NextSwitch]_vars

(***************************************************************************)
(* SpecDrain: one session of the viewer on a 2x2 grid in which every       *)
(* suspended processQueue invocation is eventually resumed: the dynamic    *)
(* import resolves and every get_image_chunk call returns or fails.        *)
(***************************************************************************)
\* replies in SpecDrain: a rejected invoke and the well-framed 1x1 blob
DrainReplies == {IpcError, Bytes(12, 1, 1)}

\* processSelectedImage on a new viewer
DrainSession(filePath, m) ==
    /\ nInits = 0
    /\ SwitchSource(filePath, m)

\* requestChunk(chunkId) called by the viewer
DrainRequest(chunkId) ==
    /\ nRequests < MaxDrainRequests
    /\ RequestChunk(chunkId)

\* a suspended invocation resumes after `await import(...)`
DrainInvoke == \E p \in BagToSet(pipes) : InvokeGetImageChunk(p)

\* a suspended invocation resumes with the reply of get_image_chunk
DrainReply ==
    \E p \in BagToSet(pipes), r \in DrainReplies :
        \E gpu \in (IF replyAccepted(r) THEN GpuOutcomes ELSE {"ok"}) :
            Reply(p, r, gpu)

NextDrain ==
    \/ \E filePath \in Paths : DrainSession(filePath, MakeMetadata(2, 2, 1))
    \/ \E chunkId \in GridIds(2, 2) : DrainRequest(chunkId)
    \/ DrainInvoke
    \/ DrainReply
    \/ Cleanup

\* the event loop runs every continuation that is ready, and every
\* get_image_chunk call returns or fails
SpecDrain ==
    /\ Init
    /\ [][NextDrain]_vars
    /\ WF_vars(DrainInvoke)
    /\ WF_vars(DrainReply)

(***************************************************************************)
(* SpecFifo: one session of the viewer on a 5x1 grid with enough requests  *)
(* to have several ids waiting in the queue; a reply is an error or a      *)
(* well-framed blob whose upload succeeds.                                 *)
(***************************************************************************)
FifoIds == GridIds(5, 1)

\* a suspended invocation resumes with the reply of get_image_chunk
FifoReply == \E p \in BagToSet(pipes), r \in DrainReplies : Reply(p, r, "ok")

NextFifo ==
    \/ \E filePath \in Paths : DrainSession(filePath, MakeMetadata(5, 1, 1))
    \/ \E chunkId \in FifoIds : RequestChunk(chunkId)
    \/ DrainInvoke
    \/ FifoReply
    \/ Cleanup

SpecFifo == Init /\ [][NextFifo]_vars

(***************************************************************************)
(* SpecHalt: the user selects sources one after the other; obtaining the   *)
(* metadata can fail.  The viewer requests chunks (loadAllChunks) only     *)
(* after a selection that succeeded.                                       *)
(***************************************************************************)
\* processSelectedImage up to its call of loadAllChunks; ok is FALSE when
\* invoke('process_user_image') rejects: the catch block reports the error
\* and neither initializeChunksFromMetadata nor loadAllChunks is called
SelectSource(filePath, ok, m) ==
    /\ gl' = TRUE
    /\ onChunkReady' = TRUE
    /\ callbackFrom' = IF onChunkReady THEN callbackFrom
                       ELSE Cardinality(DOMAIN textures)
    /\ IF ok
       THEN /\ nInits < MaxInits
            /\ currentFilePath' = filePath
            /\ metadata' = m
            /\ LET installed == InstallChunks(m, nInits + 1)
               IN  /\ chunks' = installed.chunks
                   /\ heap' = installed.heap
            /\ nInits' = nInits + 1
            /\ loadPc' = "load"
       ELSE /\ UNCHANGED <<currentFilePath, metadata, chunks, heap, nInits>>
            /\ loadPc' = "failed"
    /\ UNCHANGED <<backendVars, requestQueue, activeRequests, pipes, textures,
                   gridWidth, gridHeight, batches, batchIndex, cleaned,
                   nRequests, uploads, readyCalls>>

\* requestChunk(chunkId) called by loadAllChunks
HaltRequest(chunkId) ==
    /\ loadPc = "load"
    /\ nRequests < MaxHaltRequests
    /\ RequestChunk(chunkId)

NextHalt ==
    \/ \E filePath \in Paths, ok \in BOOLEAN :
          SelectSource(filePath, ok, MakeMetadata(2, 2, 1))
    \/ \E chunkId \in GridIds(2, 2) : HaltRequest(chunkId)
    \/ DrainInvoke
    \/ FifoReply

SpecHalt == Init /\ [][NextHalt]_vars

(***************************************************************************)
(* SpecGrid: the viewer loads images whose metadata use different chunk    *)
(* sizes, one after the other.                                             *)
(***************************************************************************)
\* metadata records with chunk_size 1, 2 and 3: grids 1x1, 2x1, 2x2 and 2x1
GridMetas ==
    {MakeMetadata(1, 1, 1), MakeMetadata(4, 2, 2), MakeMetadata(3, 3, 2),
     MakeMetadata(5, 1, 3)}

\* processSelectedImage up to its call of loadAllChunks, on a new viewer or
\* after an earlier loadAllChunks has returned
SelectImage(filePath, m) ==
    /\ loadPc \in {"idle", "done"}
    /\ nInits < MaxInits
    /\ gl' = TRUE
    /\ onChunkReady' = TRUE
    /\ callbackFrom' = IF onChunkReady THEN callbackFrom
                       ELSE Cardinality(DOMAIN textures)
    /\ currentFilePath' = filePath
    /\ metadata' = m
    /\ LET installed == InstallChunks(m, nInits + 1)
       IN  /\ chunks' = installed.chunks
           /\ heap' = installed.heap
    /\ nInits' = nInits + 1
    /\ loadPc' = "load"
    /\ UNCHANGED <<backendVars, requestQueue, activeRequests, pipes, textures,
                   gridWidth, gridHeight, batches, batchIndex, cleaned,
                   nRequests, uploads, readyCalls>>

NextGrid ==
    \/ \E filePath \in Paths, m \in GridMetas : SelectImage(filePath, m)
    \/ LoadAllChunksStart
    \/ LoadBatch
    \/ LoadAllChunksEnd
    \/ DrainInvoke
    \/ FifoReply

SpecGrid == Init /\ [][NextGrid]_vars

(***************************************************************************)
(* SpecOrder: one loadAllChunks run on a new viewer for a 3x2 grid, whose   *)
(* batches are [1_1], [0_0, 2_0], [1_0], [0_1, 2_1].                        *)
(***************************************************************************)
NextOrder ==
    \/ \E filePath \in Paths : ProcessSelectedImage(filePath, MakeMetadata(3, 2, 1))
    \/ LoadAllChunksStart
    \/ LoadBatch
    \/ LoadAllChunksEnd
    \/ DrainInvoke
    \/ FifoReply

SpecOrder == Init /\ [][NextOrder]_vars

(***************************************************************************)
(* SpecFrame: the replies of get_image_chunk are arbitrary bytes; one      *)
(* chunk is requested and its reply is parsed.                             *)
(***************************************************************************)
\* widths and heights written in the headers
HeaderDims == {0, 1, 2, 256}

\* values invoke("get_image_chunk") can resolve or reject with
RawReplies ==
    {RawBytes(len, BigEndian32(w) \o BigEndian32(h)) :
        len \in 0..MaxLen, w \in HeaderDims, h \in HeaderDims}
    \cup {ErrorReply("NotPreprocessed"), MetaReply(NoMetadata)}

\* the backend answers a get_image_chunk call
SendReply(raw) ==
    /\ \E p \in BagToSet(pipes) : p.phase = "invoked"
    /\ wire' = raw
    /\ UNCHANGED <<mgrVars, loadVars, obsVars, cache, job>>

\* processQueue resumes with the value on the wire
DeliverReply(p, gpu) ==
    /\ wire.kind # "none"
    /\ Reply(p, ParseReply(wire), gpu)

FrameRequest(chunkId) ==
    /\ nRequests < MaxFrameRequests
    /\ RequestChunk(chunkId)

NextFrame ==
    \/ SetWebGLContext
    \/ SetOnChunkReady
    \/ \E filePath \in Paths : StartSession(filePath, MakeMetadata(1, 1, 1))
    \/ FrameRequest("0_0")
    \/ \E p \in BagToSet(pipes) : InvokeGetImageChunk(p)
    \/ \E raw \in RawReplies : SendReply(raw)
    \/ \E p \in BagToSet(pipes), gpu \in GpuOutcomes : DeliverReply(p, gpu)

SpecFrame == Init /\ [][NextFrame]_vars

(***************************************************************************)
(* SpecServer: the backend commands on the cache of two sources.  A        *)
(* preprocessor run goes through the steps of its algorithm; it can fail   *)
(* at a step and the process can crash between steps.                      *)
(***************************************************************************)
\* the metadata the preprocessor computes for a source
SourceMetadata(path) ==
    MakeMetadata(ImageOf(path)[1], ImageOf(path)[2], ServerChunkSize)

\* ids of the ChunkInfo records of metadata record m
MetaIds(m) ==
    {ChunkId(m.chunks[i].chunk_x, m.chunks[i].chunk_y) : i \in 1..Len(m.chunks)}

\* the ChunkInfo of m with the given id
InfoOf(m, id) ==
    m.chunks[CHOOSE i \in 1..Len(m.chunks) :
                 ChunkId(m.chunks[i].chunk_x, m.chunks[i].chunk_y) = id]

\* is_complete(source): the metadata record exists and every blob it lists
\* exists with length 8 + w*h*4
is_complete(entry) ==
    /\ entry.metadata # NoMetadata
    /\ \A id \in MetaIds(entry.metadata) :
          /\ id \in DOMAIN entry.blobs
          /\ entry.blobs[id].len
                = 8 + InfoOf(entry.metadata, id).width
                        * InfoOf(entry.metadata, id).height * 4

\* mutant of get_image_chunk: a missing or incomplete entry is preprocessed
\* on the spot
get_image_chunk_autoPreprocess(c, path, chunk_x, chunk_y) ==
    LET m == SourceMetadata(path)
        full == [metadata |-> m,
                 blobs |-> [id \in MetaIds(m) |->
                              FrameBlob(InfoOf(m, id).width, InfoOf(m, id).height)]]
        c2 == IF is_complete(c[path]) THEN c ELSE [c EXCEPT ![path] = full]
        id == ChunkId(chunk_x, chunk_y)
    IN  [cache |-> c2,
         reply |-> IF id \in DOMAIN c2[path].blobs THEN c2[path].blobs[id]
                   ELSE ErrorReply("IoError")]

\* get_image_chunk(chunk_x, chunk_y, file_path): the cache after the call
\* and the reply
get_image_chunk(c, path, chunk_x, chunk_y) ==
    LET id == ChunkId(chunk_x, chunk_y)
    IN  [cache |-> c,
         reply |-> IF ~is_complete(c[path]) THEN ErrorReply("NotPreprocessed")
                   ELSE IF id \in DOMAIN c[path].blobs THEN c[path].blobs[id]
                   ELSE ErrorReply("IoError")]

\* chunk coordinates the viewer asks for
ServerCoords == {<<0, 0>>, <<1, 0>>}

\* the viewer invokes get_image_chunk
GetImageChunk(path, chunk_x, chunk_y) ==
    LET r == get_image_chunk(cache, path, chunk_x, chunk_y)
    IN  /\ wire' = r.reply
        /\ cache' = r.cache
        /\ UNCHANGED <<mgrVars, loadVars, obsVars, job>>

\* mutant of ProcessSource: the cache check is missing, every call starts a
\* preprocessor run
ProcessSource_reprocess(path, force) ==
    /\ job.pc = "idle"
    /\ wire' = NoReply
    /\ job' = [pc |-> IF force THEN "truncate" ELSE "decode",
               path |-> path, force |-> force, todo |-> {},
               meta |-> NoMetadata]
    /\ UNCHANGED <<mgrVars, loadVars, obsVars, cache>>

\* process_user_image (force = FALSE) or force_preprocess_chunks (force =
\* TRUE): a complete entry is returned as it is unless force, otherwise a
\* preprocessor run starts
ProcessSource(path, force) ==
    /\ job.pc = "idle"
    /\ IF is_complete(cache[path]) /\ ~force
       THEN /\ wire' = MetaReply(cache[path].metadata)
            /\ job' = job
       ELSE /\ wire' = NoReply
            /\ job' = [pc |-> IF force THEN "truncate" ELSE "decode",
                       path |-> path, force |-> force, todo |-> {},
                       meta |-> NoMetadata]
    /\ UNCHANGED <<mgrVars, loadVars, obsVars, cache>>

\* force path: the existing entry is removed first
TruncateEntry ==
    /\ job.pc = "truncate"
    /\ cache' = [cache EXCEPT ![job.path] = EmptyEntry]
    /\ job' = [job EXCEPT !.pc = "decode"]
    /\ UNCHANGED <<mgrVars, loadVars, obsVars, wire>>

\* step 2: decode the source and compute the chunk list; DecodeFailed
\* leaves the cache as it is
DecodeSource(ok) ==
    /\ job.pc = "decode"
    /\ IF ok
       THEN /\ job' = [job EXCEPT !.pc = "empty",
                                  !.meta = SourceMetadata(job.path)]
            /\ wire' = wire
       ELSE /\ job' = Idle
            /\ wire' = ErrorReply("DecodeFailed")
    /\ UNCHANGED <<mgrVars, loadVars, obsVars, cache>>

\* step 2: create or empty the cache directory of the source
EmptyDirectory ==
    /\ job.pc = "empty"
    /\ cache' = [cache EXCEPT ![job.path] = EmptyEntry]
    /\ job' = [job EXCEPT !.pc = "write", !.todo = MetaIds(job.meta)]
    /\ UNCHANGED <<mgrVars, loadVars, obsVars, wire>>

\* the blob files of entry with the file of id replaced by blob
WithBlob(entry, id, blob) ==
    [entry EXCEPT !.blobs = [i \in DOMAIN entry.blobs \cup {id} |->
                                IF i = id THEN blob ELSE entry.blobs[i]]]

\* step 3: one blob is written, in any order; a failed write leaves a
\* partial file, aborts the run and surfaces IoError
WriteBlob(id, ok) ==
    /\ job.pc = "write"
    /\ id \in job.todo
    /\ LET info == InfoOf(job.meta, id)
           blob == FrameBlob(info.width, info.height)
       IN  IF ok
           THEN /\ cache' = [cache EXCEPT
                                ![job.path] = WithBlob(@, id, blob)]
                /\ job' = [job EXCEPT !.todo = @ \ {id}]
                /\ wire' = wire
           ELSE /\ cache' = [cache EXCEPT
                                ![job.path] = WithBlob(@, id, Truncated(blob, 4))]
                /\ job' = Idle
                /\ wire' = ErrorReply("IoError")
    /\ UNCHANGED <<mgrVars, loadVars, obsVars>>

\* mutant of metadataDue: the metadata is written while blobs are missing
metadataDue_early(j) == j.pc = "write"

\* step 4: the metadata is written after all blob writes have completed
metadataDue(j) == j.pc = "write" /\ j.todo = {}

\* step 4 and 5: the metadata record is written atomically and returned
WriteMetadata(ok) ==
    /\ metadataDue(job)
    /\ IF ok
       THEN /\ cache' = [cache EXCEPT ![job.path].metadata = job.meta]
            /\ wire' = MetaReply(job.meta)
       ELSE /\ cache' = cache
            /\ wire' = ErrorReply("IoError")
    /\ job' = Idle
    /\ UNCHANGED <<mgrVars, loadVars, obsVars>>

\* the backend process dies during a run; the files stay as they are
Crash ==
    /\ job.pc # "idle"
    /\ job' = Idle
    /\ wire' = NoReply
    /\ UNCHANGED <<mgrVars, loadVars, obsVars, cache>>

\* clear_chunk_cache: the cache root is removed
ClearCache ==
    /\ job.pc = "idle"
    /\ cache' = [path \in Sources |-> EmptyEntry]
    /\ wire' = NoReply
    /\ UNCHANGED <<mgrVars, loadVars, obsVars, job>>

NextServer ==
    \/ \E path \in Sources, force \in BOOLEAN : ProcessSource(path, force)
    \/ TruncateEntry
    \/ \E ok \in BOOLEAN : DecodeSource(ok)
    \/ EmptyDirectory
    \/ \E id \in job.todo, ok \in BOOLEAN : WriteBlob(id, ok)
    \/ \E ok \in BOOLEAN : WriteMetadata(ok)
    \/ Crash
    \/ ClearCache
    \/ \E path \in Sources, c \in ServerCoords : GetImageChunk(path, c[1], c[2])

SpecServer == Init /\ [][NextServer]_vars

(***************************************************************************)
(* SpecSource: the user selects a.png (2x2 grid) and then b.png (1x1 grid) *)
(* while the manager is in use; the viewer requests ids of the grid of the *)
(* current metadata, as loadAllChunks does.                                *)
(***************************************************************************)
\* the sources in the order the user selects them
SelectionOrder == <<"a.png", "b.png">>

\* the metadata process_user_image returns for a source
SelectedMetadata(path) ==
    IF path = "a.png" THEN MakeMetadata(2, 2, 1) ELSE MakeMetadata(1, 1, 1)

\* processSelectedImage for the next source of the order
SourceSelect ==
    /\ nInits < Len(SelectionOrder)
    /\ SwitchSource(SelectionOrder[nInits + 1],
                    SelectedMetadata(SelectionOrder[nInits + 1]))

\* requestChunk(chunkId) called by loadAllChunks for an id of the grid
SourceRequest(chunkId) ==
    /\ metadata # NoMetadata
    /\ chunkId \in GridIds(CeilDiv(metadata.total_width, metadata.chunk_size),
                           CeilDiv(metadata.total_height, metadata.chunk_size))
    /\ RequestChunk(chunkId)

\* the source for which the chunk object ref was created: the objects of
\* generation n are created by the n-th initializeChunksFromMetadata
SourceOf(ref) == SelectionOrder[ref[1]]

NextSource ==
    \/ SourceSelect
    \/ \E chunkId \in GridIds(2, 2) : SourceRequest(chunkId)
    \/ DrainInvoke
    \/ FifoReply

SpecSource == Init /\ [][NextSource]_vars

(***************************************************************************)
(* Properties of the spatial scheduler (checked under SpecBatch).          *)
(***************************************************************************)
Range(s) == {s[i] : i \in 1..Len(s)}

RECURSIVE Flatten(_)
Flatten(ss) == IF ss = <<>> THEN <<>> ELSE Head(ss) \o Flatten(Tail(ss))

\* the cell (x, y) an id of the grid stands for
CellOf(id, gx, gy) ==
    CHOOSE c \in (0..(gx - 1)) \X (0..(gy - 1)) : ChunkId(c[1], c[2]) = id

Abs(n) == IF n < 0 THEN -n ELSE n

\* 4-neighbours: differ by exactly 1 in one coordinate and 0 in the other
FourNeighbors(c, d) == Abs(c[1] - d[1]) + Abs(c[2] - d[2]) = 1

\* the parity classes in the order of the design: 1 = (x odd, y odd),
\* 2 = (x even, y even), 3 = (x odd, y even), 4 = (x even, y odd)
ParityClass(k, gx, gy) ==
    LET px == IF k \in {1, 3} THEN 1 ELSE 0
        py == IF k \in {1, 4} THEN 1 ELSE 0
    IN  {ChunkId(x, y) : x \in {v \in 0..(gx - 1) : v % 2 = px},
                         y \in {v \in 0..(gy - 1) : v % 2 = py}}

NonEmptyClasses(gx, gy) ==
    SelectSeq(<<1, 2, 3, 4>>, LAMBDA k : ParityClass(k, gx, gy) # {})

\* C6: the concatenation of the batches returned by createSpatialBatches(gx, gy)
\* contains every id of the gx by gy grid exactly once and no other id.
C6_BatchesPartitionGrid ==
    loadPc = "batched" =>
        LET flat == Flatten(batches)
        IN  /\ Range(flat) = GridIds(gridWidth, gridHeight)
            /\ Len(flat) = gridWidth * gridHeight
            /\ \A i, j \in 1..Len(flat) : flat[i] = flat[j] => i = j

C6_Witness ==
    /\ loadPc = "batched"
    /\ gridWidth = 3
    /\ gridHeight = 2
    /\ Len(Flatten(batches)) = 6

\* C7: no two chunks of one batch returned by createSpatialBatches are
\* 4-neighbours in the grid (in particular not in the first batch).
C7_NoNeighborsInBatch ==
    loadPc = "batched" =>
        \A b \in 1..Len(batches) :
            \A i, j \in 1..Len(batches[b]) :
                ~FourNeighbors(CellOf(batches[b][i], gridWidth, gridHeight),
                               CellOf(batches[b][j], gridWidth, gridHeight))

C7_Witness ==
    /\ loadPc = "batched"
    /\ gridWidth >= 4
    /\ gridHeight >= 4
    /\ Len(batches) = 4
    /\ Len(batches[1]) >= 4

\* C8 as stated: createSpatialBatches returns exactly four batches for
\* every grid, grids with a single row or column included.
C8_AlwaysFourBatches ==
    loadPc = "batched" => Len(batches) = 4

\* C8 as amended: createSpatialBatches returns one batch per non-empty
\* parity class and never an empty batch: four batches when gx >= 2 and
\* gy >= 2, two when exactly one of gx, gy is 1, one for the 1x1 grid.
C8_BatchCount ==
    loadPc = "batched" =>
        /\ Len(batches) = (IF gridWidth >= 2 THEN 2 ELSE 1)
                            * (IF gridHeight >= 2 THEN 2 ELSE 1)
        /\ \A b \in 1..Len(batches) : Len(batches[b]) > 0

C8_Witness ==
    /\ loadPc = "batched"
    /\ gridWidth = 2
    /\ gridHeight = 1
    /\ Len(batches) = 2

\* C9: every batch returned by createSpatialBatches holds exactly the cells
\* of one parity class, the classes appear in the order (odd, odd),
\* (even, even), (odd, even), (even, odd), and the 2x2 grid gives
\* [(1,1)], [(0,0)], [(1,0)], [(0,1)].
C9_ParityOrder ==
    loadPc = "batched" =>
        LET classes == NonEmptyClasses(gridWidth, gridHeight)
        IN  /\ Len(batches) = Len(classes)
            /\ \A b \in 1..Len(batches) :
                  /\ Range(batches[b])
                        = ParityClass(classes[b], gridWidth, gridHeight)
                  /\ Len(batches[b]) = Cardinality(Range(batches[b]))
            /\ (gridWidth = 2 /\ gridHeight = 2) =>
                  batches = << <<"1_1">>, <<"0_0">>, <<"1_0">>, <<"0_1">> >>

C9_Witness ==
    /\ loadPc = "batched"
    /\ gridWidth = 2
    /\ gridHeight = 2
    /\ batches[3] = <<"1_0">>

(***************************************************************************)
(* Properties of the chunk manager (checked under Spec).                   *)
(***************************************************************************)
StatusOf(id) == heap[chunks[id]].status

\* C1: with no cleanup() so far, the number of request pipelines in flight
\* equals activeRequests and never exceeds maxConcurrentRequests = 3.
C1_ConcurrencyCap ==
    ~cleaned =>
        /\ BagCardinality(pipes) = activeRequests
        /\ activeRequests <= maxConcurrentRequests
        /\ maxConcurrentRequests = 3

C1_Witness ==
    /\ ~cleaned
    /\ nInits = 1
    /\ activeRequests = 3
    /\ BagCardinality(pipes) = 3
    /\ Len(requestQueue) > 0

\* C2: within one session (initialized once, no cleanup yet) the manager
\* creates and uploads a texture at most once for each chunk.
C2_SingleUploadPerChunk ==
    (~cleaned /\ nInits <= 1) =>
        \A ref \in DOMAIN uploads : uploads[ref] <= 1

\* C5: with a callback installed before any upload, over a session the
\* callback is invoked exactly once for every chunk that reached InGpu, and
\* the callback invocations follow the order of the InGpu entries (each
\* step that makes a chunk enter InGpu invokes the callback for it).
C5_ReadyOncePerChunk ==
    /\ []((callbackFrom = 0 /\ ~cleaned /\ nInits <= 1) =>
            \A ref \in DOMAIN uploads : Count(readyCalls, ref) = 1)
    /\ [][(callbackFrom = 0 /\ ~cleaned /\ nInits <= 1) =>
            \A ref \in DOMAIN uploads' :
                (Count(uploads', ref) - Count(uploads, ref))
                    = (Count(readyCalls', ref) - Count(readyCalls, ref))]_vars

\* C10: requestChunk(id) for a chunk whose status is Requesting, InCpu or
\* InGpu leaves the request queue, the outstanding counter, the pipelines
\* and the status, data and texture of every chunk unchanged.
C10_RequestNoOpOnActive ==
    \A id \in DOMAIN chunks :
        StatusOf(id) \in {REQUESTING, IN_CPU, IN_GPU} =>
            LET after == requestChunk(MgrState, chunks, id)
            IN  /\ after.queue = requestQueue
                /\ after.active = activeRequests
                /\ after.heap = heap
                /\ after.pipes = pipes

C10_Witness ==
    /\ Len(requestQueue) > 0
    /\ \E a, b \in DOMAIN chunks :
          /\ StatusOf(a) = REQUESTING
          /\ StatusOf(b) = IN_GPU
          /\ requestChunk(MgrState, chunks, a) = MgrState
          /\ requestChunk(MgrState, chunks, b) = MgrState

(***************************************************************************)
(* Properties of loadAllChunks (checked under SpecLoad).                   *)
(***************************************************************************)
\* the index of the batch of loadAllChunks that holds chunk id
BatchOf(id) == CHOOSE k \in 1..Len(batches) : id \in Range(batches[k])

Loading == loadPc \in {"batches", "done"}

\* C3: no chunk of batch k+1 is started (has left Unrequested) until every
\* chunk of batch k has settled, i.e. is in InGpu or Error.
C3_BatchBarrier ==
    Loading =>
        \A k \in 1..(Len(batches) - 1) :
            (\E id \in Range(batches[k + 1]) : StatusOf(id) # UNREQUESTED)
                => \A id \in Range(batches[k]) :
                       StatusOf(id) \in {IN_GPU, ERROR}

\* C4: every transition to InGpu of a chunk of batch k happens before any
\* transition to InGpu of a chunk of batch k+1: when a chunk enters InGpu,
\* no chunk of a later batch has entered InGpu before.
C4_CrossBatchInGpuOrder ==
    [][Loading =>
        \A ref \in DOMAIN uploads' :
            Count(uploads', ref) > Count(uploads, ref) =>
                \A other \in DOMAIN uploads :
                    BatchOf(other[2]) <= BatchOf(ref[2])]_vars

(***************************************************************************)
(* Properties of initialization and teardown.                              *)
(***************************************************************************)
\* C11: after every initializeChunksFromMetadata(path, m), the first and
\* every later one, the manager holds one chunk state for each ChunkInfo of
\* m and no other, each Unrequested with no pixel data and no texture.
C11_InitializeInstallsMetadata ==
    [][nInits' = nInits + 1 =>
          /\ DOMAIN chunks' = MetaIds(metadata')
          /\ \A id \in DOMAIN chunks' :
                /\ heap'[chunks'[id]].status = UNREQUESTED
                /\ heap'[chunks'[id]].data = NoData
                /\ heap'[chunks'[id]].texture = NoTexture]_vars

\* C12: in every reachable state a chunk state that holds a texture handle
\* is in status InGpu (a chunk that went to Error, also through a throwing
\* ready callback, or back to Unrequested holds no texture).
C12_TextureOnlyInGpu ==
    \A id \in DOMAIN chunks :
        heap[chunks[id]].texture # NoTexture => StatusOf(id) = IN_GPU

(***************************************************************************)
(* Properties of failing request pipelines.                                *)
(***************************************************************************)
\* the object the head of the request queue stands for, as a set (empty
\* when the queue is empty or the id is unknown)
HeadRefs ==
    IF requestQueue # <<>> /\ Head(requestQueue) \in DOMAIN chunks
    THEN {chunks[Head(requestQueue)]} ELSE {}

\* C13: when the pipeline of a chunk fails on its reply (IPC error, wrong
\* reply type, framing error), that chunk ends in Error, its slot is
\* released (the counter drops by one before the queue continues), no other
\* chunk changes except the head of the queue, which is started.
C13_FailureIsolation ==
    [][\A p \in BagToSet(pipes), r \in Replies :
          (~replyAccepted(r) /\ Reply(p, r, "ok")) =>
              /\ heap'[p.chunk].status = ERROR
              /\ activeRequests' = activeRequests - 1 + Cardinality(HeadRefs)
              /\ \A ref \in DOMAIN heap \ ({p.chunk} \cup HeadRefs) :
                    heap'[ref] = heap[ref]
              /\ \A ref \in HeadRefs :
                    /\ heap'[ref].status = REQUESTING
                    /\ BagIn(NewPipe(ref), pipes')
                    /\ requestQueue' = Tail(requestQueue)]_vars

\* the header of a reply read as two big-endian unsigned 32-bit integers
HeaderW(raw) == raw.hdr[1] * 16777216 + raw.hdr[2] * 65536 + raw.hdr[3] * 256
                    + raw.hdr[4]
HeaderH(raw) == raw.hdr[5] * 16777216 + raw.hdr[6] * 65536 + raw.hdr[7] * 256
                    + raw.hdr[8]

\* len >= 8 and len - 8 = w * h * 4
WellFramed(raw) ==
    IF raw.len >= 8 THEN raw.len - 8 = HeaderW(raw) * HeaderH(raw) * 4
    ELSE FALSE

\* C14: a reply of len bytes with big-endian header (w, h) is accepted (the
\* chunk receives the pixel data and the header's size, status InCpu, and
\* moves on to the upload when a WebGL context is set) if and only if
\* len >= 8 and len - 8 = w*h*4; for every other blob the chunk goes to
\* Error, its data and texture stay as they were and no texture is created.
C14_BlobFramingCheck ==
    [][\A p \in BagToSet(pipes), gpu \in GpuOutcomes :
          (wire.kind = "bytes" /\ DeliverReply(p, gpu)) =>
              IF WellFramed(wire)
              THEN /\ heap'[p.chunk].data = wire.len - 8
                   /\ heap'[p.chunk].width = HeaderW(wire)
                   /\ heap'[p.chunk].height = HeaderH(wire)
                   /\ heap'[p.chunk].status
                         \in (IF gl THEN {IN_GPU, ERROR} ELSE {IN_CPU})
              ELSE /\ heap'[p.chunk].status = ERROR
                   /\ heap'[p.chunk].data = heap[p.chunk].data
                   /\ heap'[p.chunk].texture = heap[p.chunk].texture
                   /\ textures' = textures
                   /\ uploads' = uploads]_vars

C14_Witness ==
    /\ wire.kind = "bytes"
    /\ wire.len = 16
    /\ WellFramed(wire)
    /\ \E id \in DOMAIN chunks :
          /\ StatusOf(id) = IN_CPU
          /\ heap[chunks[id]].data = 8
          /\ heap[chunks[id]].width = 2

\* C15: once a chunk state is in Error it stays in Error as long as the
\* manager holds it (until cleanup or re-initialization), whatever
\* requestChunk calls and replies follow; so no get_image_chunk pipeline is
\* started for it again.
C15_ErrorIsTerminal ==
    [][\A id \in DOMAIN chunks :
          (/\ StatusOf(id) = ERROR
           /\ id \in DOMAIN chunks'
           /\ chunks'[id] = chunks[id]) =>
              /\ heap'[chunks[id]].status = ERROR
              /\ ~BagIn(NewPipe(chunks[id]), pipes')]_vars

\* textures held by the chunk states of the manager
HeldTextures ==
    {heap[chunks[id]].texture : id \in DOMAIN chunks} \ {NoTexture}

\* C16: immediately after cleanup() returns with a WebGL context set, every
\* texture that was held by a chunk state is deleted, the chunk map and the
\* request queue are empty and the outstanding counter is 0.
C16_CleanupPostState ==
    [][(gl /\ Cleanup) =>
          /\ \A t \in HeldTextures : textures'[t] = "deleted"
          /\ chunks' = EmptyMap
          /\ requestQueue' = <<>>
          /\ activeRequests' = 0]_vars

C16_Witness ==
    /\ cleaned
    /\ gl
    /\ chunks = EmptyMap
    /\ activeRequests = 0
    /\ \E t \in DOMAIN textures : textures[t] = "deleted"
    /\ BagCardinality(pipes) > 0

\* the chunk objects the manager holds
HeldRefs == {chunks[id] : id \in DOMAIN chunks}

\* C17: cleanup and re-initialization release chunk states only when no
\* request pipeline is in flight; and a chunk state that has been released
\* is not changed by a pending reply: no status change, no texture created
\* for it, no ready callback invoked for it.
C17_TeardownWaitsForDrain ==
    [][/\ (\E ref \in HeldRefs : ref \notin {chunks'[id] : id \in DOMAIN chunks'})
            => pipes = EmptyBag
       /\ \A ref \in (DOMAIN heap \cap DOMAIN heap') \ HeldRefs :
            /\ heap'[ref] = heap[ref]
            /\ Count(uploads', ref) = Count(uploads, ref)
            /\ Count(readyCalls', ref) = Count(readyCalls, ref)]_vars

(***************************************************************************)
(* Properties of the observers.                                            *)
(***************************************************************************)
RECURSIVE SumOver(_, _)
SumOver(f, keys) ==
    IF keys = {} THEN 0
    ELSE LET k == CHOOSE x \in keys : TRUE IN f[k] + SumOver(f, keys \ {k})

\* C18: in every reachable state getStatusStats() gives for each of the five
\* statuses the number of chunk states of the manager in that status (the
\* five counts sum to the number of chunk states), and getLoadedChunks()
\* gives exactly the chunk states whose status is InGpu.
C18_ObserversAgree ==
    /\ DOMAIN getStatusStats = ChunkStatus
    /\ Cardinality(ChunkStatus) = 5
    /\ \A st \in ChunkStatus :
          getStatusStats[st]
              = Cardinality({id \in DOMAIN chunks : StatusOf(id) = st})
    /\ SumOver(getStatusStats, ChunkStatus) = Cardinality(DOMAIN chunks)
    /\ \A id \in DOMAIN chunks :
          chunks[id] \in getLoadedChunks <=> StatusOf(id) = IN_GPU
    /\ getLoadedChunks \subseteq HeldRefs

C18_Witness ==
    /\ getStatusStats[UNREQUESTED] = 1
    /\ getStatusStats[REQUESTING] = 1
    /\ getStatusStats[IN_GPU] = 1
    /\ getStatusStats[ERROR] = 1
    /\ Cardinality(getLoadedChunks) = 1

(***************************************************************************)
(* Properties of the backend (checked under SpecServer).                   *)
(***************************************************************************)
\* C19: get_image_chunk for a source whose cache entry is not complete fails
\* with NotPreprocessed and leaves the cache unchanged (no blob, no
\* metadata is created); it returns blob bytes only when the entry is
\* complete.
C19_NoAutoPreprocess ==
    [][\A path \in Sources, c \in ServerCoords :
          GetImageChunk(path, c[1], c[2]) =>
              /\ cache' = cache
              /\ ~is_complete(cache[path])
                    => wire' = ErrorReply("NotPreprocessed")
              /\ wire'.kind = "bytes" => is_complete(cache[path])]_vars

C19_Witness ==
    /\ wire = ErrorReply("NotPreprocessed")
    /\ \E path \in Sources :
          /\ cache[path].metadata = NoMetadata
          /\ DOMAIN cache[path].blobs # {}
    /\ \E path \in Sources : is_complete(cache[path])

\* C20: in every state reachable during preprocess or force-preprocess,
\* after a decode failure, a failed blob write or a crash included, if the
\* metadata record of an entry exists then every chunk blob of its grid is
\* completely written (the metadata is written after all blobs).
C20_MetadataIsCommitPoint ==
    \A path \in Sources :
        cache[path].metadata # NoMetadata =>
            \A id \in MetaIds(cache[path].metadata) :
                /\ id \in DOMAIN cache[path].blobs
                /\ cache[path].blobs[id]
                      = FrameBlob(InfoOf(cache[path].metadata, id).width,
                                  InfoOf(cache[path].metadata, id).height)

C20_Witness ==
    /\ job.pc = "idle"
    /\ \E path \in Sources :
          /\ cache[path].metadata = NoMetadata
          /\ \E id \in DOMAIN cache[path].blobs : cache[path].blobs[id].len = 4
    /\ \E path \in Sources :
          /\ cache[path].metadata # NoMetadata
          /\ is_complete(cache[path])

\* C21: process_source on a source whose cache entry is complete returns the
\* persisted metadata, which is the record the run that filled the entry
\* returned, and writes nothing: the cache is unchanged and no preprocessor
\* run starts.
C21_PreprocessIdempotent ==
    [][/\ \A path \in Sources :
            (is_complete(cache[path]) /\ ProcessSource(path, FALSE)) =>
                /\ wire' = MetaReply(cache[path].metadata)
                /\ cache' = cache
                /\ job' = Idle
       /\ WriteMetadata(TRUE) =>
            /\ wire'.kind = "metadata"
            /\ wire'.meta = cache'[job.path].metadata]_vars

C21_Witness ==
    /\ job.pc = "idle"
    /\ wire.kind = "metadata"
    /\ wire.meta = MakeMetadata(2, 1, 1)
    /\ is_complete(cache["a.png"])
    /\ is_complete(cache["b.png"])
    /\ cache["a.png"].metadata = wire.meta

(***************************************************************************)
(* Properties of the chunk lifecycle.                                      *)
(***************************************************************************)
\* the status changes the data model allows between two states of a run;
\* a reply handler goes through InCpu on its way from Requesting to InGpu
LegalEdge(from, to) ==
    \/ from = to
    \/ from = UNREQUESTED /\ to = REQUESTING
    \/ from = REQUESTING /\ to \in {IN_CPU, IN_GPU}
    \/ from = IN_CPU /\ to = IN_GPU
    \/ from \in {UNREQUESTED, REQUESTING, IN_CPU} /\ to = ERROR

\* C22: during a session (initialized once, no cleanup) every status change
\* of a chunk state is Unrequested->Requesting, Requesting->InCpu,
\* InCpu->InGpu or non-terminal->Error; a chunk in InGpu keeps its status.
C22_LifecycleEdges ==
    [][(~cleaned' /\ nInits = 1 /\ nInits' = 1) =>
          \A id \in DOMAIN chunks :
              LegalEdge(StatusOf(id), heap'[chunks[id]].status)]_vars

(***************************************************************************)
(* Properties of the request queue under fair replies (SpecDrain).         *)
(***************************************************************************)
\* C23: when every get_image_chunk invocation returns or fails and finitely
\* many requests are made, eventually the request queue is empty and no
\* pipeline is in flight, for good; and every settle, success or failure,
\* releases its slot and starts the id at the head of the queue.
C23_QueueDrains ==
    /\ <>[](requestQueue = <<>> /\ pipes = EmptyBag)
    /\ [][\A p \in BagToSet(pipes), r \in DrainReplies, gpu \in GpuOutcomes :
             Reply(p, r, gpu) =>
                 /\ activeRequests' = activeRequests - 1 + Cardinality(HeadRefs)
                 /\ requestQueue # <<>> =>
                       /\ requestQueue' = Tail(requestQueue)
                       /\ \A ref \in HeadRefs :
                             /\ heap'[ref].status = REQUESTING
                             /\ BagIn(NewPipe(ref), pipes')]_vars

C23_Witness ==
    /\ nRequests = MaxDrainRequests
    /\ requestQueue = <<>>
    /\ pipes = EmptyBag
    /\ ~cleaned
    /\ \E ref \in DOMAIN uploads : uploads[ref] >= 1
    /\ \E id \in DOMAIN chunks : StatusOf(id) = ERROR

\* C24: when the pipeline of a chunk has completed (its reply has been
\* handled and its slot released), the chunk is in InGpu if every step
\* succeeded and in Error otherwise, never in Requesting or InCpu, also
\* when no WebGL context is set or the texture cannot be created.  (The
\* chunk is not the one the freed slot starts next.)
C24_SettledInGpuOrError ==
    [][\A p \in BagToSet(pipes), r \in Replies, gpu \in GpuOutcomes :
          (Reply(p, r, gpu) /\ p.chunk \notin HeadRefs) =>
              /\ heap'[p.chunk].status \in {IN_GPU, ERROR}
              /\ (~replyAccepted(r) \/ gpu = "no_texture")
                    => heap'[p.chunk].status = ERROR]_vars

(***************************************************************************)
(* Properties of the order of starts (SpecFifo).                           *)
(***************************************************************************)
\* the chunk objects for which a step starts a pipeline (Requesting, a new
\* processQueue invocation suspended at its first await)
StartedRefs ==
    {ref \in DOMAIN heap' :
        CopiesIn(NewPipe(ref), pipes') > CopiesIn(NewPipe(ref), pipes)}

\* a step that may start a pipeline from queue q: either nothing is started
\* and q stays, or the id at the head of q is started and leaves q
StartsHeadOf(q) ==
    \/ StartedRefs = {} /\ requestQueue' = q
    \/ /\ q # <<>>
       /\ Head(q) \in DOMAIN chunks
       /\ StartedRefs = {chunks[Head(q)]}
       /\ heap'[chunks[Head(q)]].status = REQUESTING
       /\ requestQueue' = Tail(q)

\* C25: for any interleaving of requests and replies, ids enter the queue
\* at its end, leave it only from its front, and the id that leaves is the
\* chunk that is started: chunks are started in the order of their enqueue.
C25_FifoStartOrder ==
    [][/\ \A chunkId \in FifoIds :
            (RequestChunk(chunkId) /\ nRequests' = nRequests + 1)
                => StartsHeadOf(Append(requestQueue, chunkId))
       /\ FifoReply => StartsHeadOf(requestQueue)
       /\ ~(FifoReply \/ Cleanup
              \/ \E chunkId \in FifoIds :
                    RequestChunk(chunkId) /\ nRequests' = nRequests + 1)
            => (StartedRefs = {} /\ requestQueue' = requestQueue)]_vars

C25_Witness ==
    /\ ~cleaned
    /\ Len(requestQueue) = 2
    /\ requestQueue[1] # requestQueue[2]
    /\ activeRequests = 3
    /\ BagCardinality(pipes) = 3

(***************************************************************************)
(* Properties of the chunk data.                                           *)
(***************************************************************************)
\* C26: a chunk state in InGpu holds no CPU pixel buffer, and at most
\* maxConcurrentRequests (3) chunk states hold pixel data at any time.
C26_CpuBufferDropped ==
    /\ \A id \in DOMAIN chunks :
          StatusOf(id) = IN_GPU => heap[chunks[id]].data = NoData
    /\ Cardinality({id \in DOMAIN chunks : heap[chunks[id]].data # NoData})
          <= maxConcurrentRequests

\* the width and height passed to gl.texImage2D for a chunk
uploadDims(chunk) == <<chunk.width, chunk.height>>

\* C27: after a blob has been parsed successfully the chunk's width and
\* height are the (w, h) of the blob header, whatever the metadata declared,
\* and the texture is uploaded with them; a reply that fails the framing
\* check (or is no blob at all) leaves the chunk's width and height as the
\* metadata declared them.
C27_BlobDimsAuthoritative ==
    [][\A p \in BagToSet(pipes), gpu \in GpuOutcomes :
          DeliverReply(p, gpu) =>
              IF wire.kind = "bytes" /\ WellFramed(wire)
              THEN /\ heap'[p.chunk].width = HeaderW(wire)
                   /\ heap'[p.chunk].height = HeaderH(wire)
                   /\ Count(uploads', p.chunk) > Count(uploads, p.chunk)
                         => uploadDims(heap'[p.chunk])
                                = <<HeaderW(wire), HeaderH(wire)>>
              ELSE /\ heap'[p.chunk].width = heap[p.chunk].width
                   /\ heap'[p.chunk].height = heap[p.chunk].height
                   /\ (nRequests = 1 =>
                         /\ heap'[p.chunk].width
                               = InfoOf(metadata, p.chunk[2]).width
                         /\ heap'[p.chunk].height
                               = InfoOf(metadata, p.chunk[2]).height)]_vars

C27_Witness ==
    /\ metadata # NoMetadata
    /\ InfoOf(metadata, "0_0").width = 1
    /\ "0_0" \in DOMAIN chunks
    /\ StatusOf("0_0") = IN_GPU
    /\ heap[chunks["0_0"]].width = 2
    /\ heap[chunks["0_0"]].height = 1
    /\ heap[chunks["0_0"]].data = 8
    /\ wire.len = 16

(***************************************************************************)
(* Properties of a failed selection (SpecHalt).                            *)
(***************************************************************************)
\* C28: after obtaining the metadata of a selected source has failed, and
\* until a later selection succeeds, no chunk is started and no
\* get_image_chunk request is issued, also when chunks of the source loaded
\* before are still queued.
C28_InitFailureHaltsRequests ==
    [][(loadPc = "failed" /\ loadPc' = "failed") =>
          /\ StartedRefs = {}
          /\ ~DrainInvoke]_vars

(***************************************************************************)
(* Properties of the grid of loadAllChunks (SpecGrid).                     *)
(***************************************************************************)
\* C29: for every metadata record with chunks_x = ceil(total_width /
\* chunk_size) and chunks_y = ceil(total_height / chunk_size), whatever the
\* chunk_size, the grid used by loadAllChunks is chunks_x by chunks_y and
\* the set of ids in its batches is the set of chunk ids the manager holds.
C29_GridFromMetadata ==
    Loading =>
        /\ gridWidth = metadata.chunks_x
        /\ gridHeight = metadata.chunks_y
        /\ Range(Flatten(batches)) = DOMAIN chunks

(***************************************************************************)
(* Properties of the outstanding counter under teardown (SpecSwitch).      *)
(***************************************************************************)
\* C30: for any sequence of initialize, requestChunk, reply and cleanup
\* events, with cleanup() or a re-initialization while requests are in
\* flight included, activeRequests stays within 0..3 and at most 3
\* pipelines are in flight.
C30_CounterSurvivesTeardown ==
    /\ activeRequests \in 0..maxConcurrentRequests
    /\ BagCardinality(pipes) <= maxConcurrentRequests

(***************************************************************************)
(* Properties of the start order of a load (SpecOrder).                    *)
(***************************************************************************)
\* TRUE when the chunk has been started (has left Unrequested)
Started(id) == StatusOf(id) # UNREQUESTED

\* C31: in a single loadAllChunks run on a freshly initialized manager the
\* chunks are started in the order of the concatenated batches: a chunk is
\* started only when every chunk of an earlier batch, and every chunk
\* emitted before it in its own batch, has been started, whatever the
\* order of the replies.
C31_StartOrderFollowsBatches ==
    (Loading /\ nInits = 1) =>
        LET flat == Flatten(batches)
        IN  \A i, j \in 1..Len(flat) :
                (i < j /\ Started(flat[j])) => Started(flat[i])

C31_Witness ==
    /\ loadPc = "done"
    /\ batches = << <<"1_1">>, <<"0_0", "2_0">>, <<"1_0">>, <<"0_1", "2_1">> >>
    /\ requestQueue = <<"2_1">>
    /\ StatusOf("0_1") = REQUESTING
    /\ StatusOf("2_1") = UNREQUESTED
    /\ StatusOf("1_1") = ERROR
    /\ StatusOf("0_0") = IN_GPU

(***************************************************************************)
(* Properties of the work items of the manager.                            *)
(***************************************************************************)
\* ids of the chunks with a request pipeline in flight
InFlightIds == {p.chunk[2] : p \in BagToSet(pipes)}

\* C32: no chunk id occurs more than once in the request queue, no chunk id
\* is both in the queue and in flight, and at most one request pipeline per
\* chunk is in flight.
C32_NoDuplicateWorkItems ==
    /\ \A i, j \in 1..Len(requestQueue) :
          requestQueue[i] = requestQueue[j] => i = j
    /\ \A i \in 1..Len(requestQueue) : requestQueue[i] \notin InFlightIds
    /\ \A p \in BagToSet(pipes) : CopiesIn(p, pipes) = 1
    /\ \A p, q \in BagToSet(pipes) : p.chunk = q.chunk => p = q

(***************************************************************************)
(* Properties of requests across a source switch (SpecSource).             *)
(***************************************************************************)
\* C33: every get_image_chunk invocation carries the file path of the
\* source its chunk was requested for, and its reply updates a chunk state
\* of that source, also when the source is switched while ids are queued or
\* in flight.
C33_RequestsServedAgainstOwnSource ==
    /\ [][\A p \in BagToSet(pipes) :
             InvokeGetImageChunk(p) => currentFilePath = SourceOf(p.chunk)]_vars
    /\ [](\A p \in BagToSet(pipes) :
             p.phase = "invoked" => p.filePath = SourceOf(p.chunk))

(***************************************************************************)
(* Properties of the textures.                                             *)
(***************************************************************************)
\* C34: after any sequence of initialize, requestChunk, reply, upload
\* failure, re-initialization and cleanup events, every texture the manager
\* has created is held by a chunk state of the chunk map or has been
\* deleted.
C34_NoLeakedTextures ==
    \A t \in DOMAIN textures : textures[t] = "live" => t \in HeldTextures

(***************************************************************************)
(* Properties of the slots.                                                *)
(***************************************************************************)
\* C35: between any two events (a requestChunk call, the handling of a
\* reply), as long as cleanup() has not run, a non-empty request queue
\* implies that all 3 slots are occupied: no queued chunk waits while a slot
\* is free.
C35_WorkConservation ==
    (~cleaned /\ requestQueue # <<>>) => activeRequests = maxConcurrentRequests

\* an id waits behind three running requests after a reply has been handled
C35_Witness ==
    /\ ~cleaned
    /\ requestQueue # <<>>
    /\ activeRequests = maxConcurrentRequests
    /\ \E id \in DOMAIN chunks : StatusOf(id) \in {IN_GPU, ERROR}

(***************************************************************************)
(* Properties of the loaded chunks.                                        *)
(***************************************************************************)
\* C36: in every reachable state every chunk state whose status is IN_GPU
\* holds a texture handle, so every element returned by getLoadedChunks()
\* has a texture.
C36_LoadedChunksDrawable ==
    /\ \A ref \in DOMAIN heap :
          heap[ref].status = IN_GPU => heap[ref].texture # NoTexture
    /\ \A ref \in getLoadedChunks : heap[ref].texture # NoTexture

\* getLoadedChunks() returns a chunk after an upload, next to a chunk whose
\* request failed
C36_Witness ==
    /\ \E ref \in getLoadedChunks :
          /\ heap[ref].texture \in DOMAIN textures
          /\ textures[heap[ref].texture] = "live"
    /\ \E id \in DOMAIN chunks : StatusOf(id) = ERROR

====
